---- MODULE Spec2Model ----
(***************************************************************************)
(* Model of the Dashboard component                                        *)
(* (src/frontend/src/components/Dashboard.tsx): the three pieces of React  *)
(* state (data, loading, error), the asynchronous fetchData and            *)
(* generateDemoData handlers split at their await points, the 10 s         *)
(* interval armed by the mount effect and its cleanup, and the view the    *)
(* render function selects.                                                *)
(***************************************************************************)
EXTENDS Integers, Sequences, FiniteSets, TLC

(* Bounds of the exploration: summary requests and demo-seed requests      *)
(* issued during one lifetime of the component.                            *)
MaxFetches == 3
MaxSeeds == 2

(* ---- values ----------------------------------------------------------- *)

(* useState<SummaryData | null>(null): the null snapshot.  A snapshot is   *)
(* the decoded body together with the request whose response carried it.   *)
NoData == [req |-> 0, kind |-> "null"]

(* useState<string | null>(null): no error.                                *)
NoError == "null"

(* Messages the handlers can store in `error`.                             *)
FetchNotOkMsg == "Failed to fetch data"
FallbackMsg == "Failed to load data"
DemoSeedMsg == "Failed to generate demo data"
(* message of the TypeError a rejected fetch() carries                     *)
TransportMsg == "TypeError: fetch failed"
(* message of the SyntaxError a rejected response.json() carries           *)
ParseMsg == "SyntaxError: invalid JSON"

(* What response.json() can resolve to: a SummaryData with                 *)
(* total_requests > 0 and costs, a SummaryData with total_requests > 0 and *)
(* total_cost = cost_saved = 0, a SummaryData with total_requests = 0, a   *)
(* JSON object that is not a SummaryData, and the JSON value null.         *)
JsonResults == {"summary", "zeroCost", "empty", "wrongShape", "null"}

(* The numeric fields of a decoded SummaryData (money in cents).           *)
Fields(kind) ==
    CASE kind = "summary"  -> [total_requests |-> 12000, total_cost |-> 10000, cost_saved |-> 23333]
      [] kind = "zeroCost" -> [total_requests |-> 5, total_cost |-> 0, cost_saved |-> 0]
      [] kind = "empty"    -> [total_requests |-> 0, total_cost |-> 0, cost_saved |-> 0]

(* What the network produced for a summary request that did not decode:   *)
(* a non-2xx response, a rejected fetch(), a body that is not JSON.        *)
FailureCauses == {"notOk", "rejected", "notJson"}

(* Who called fetchData.                                                   *)
Origins == {"mount", "timer", "manual", "seed"}

(* A call that has returned: nothing of it remains in the program.         *)
Returned == [pc |-> "done", origin |-> "none"]
ReturnedSeed == [pc |-> "done", post |-> "none", fetch |-> 0]

VARIABLES
    data,       \* useState data
    loading,    \* useState loading
    error,      \* useState error
    life,       \* "constructed" | "mounted" | "unmounted"
    interval,   \* number of armed setInterval timers
    fetches,    \* calls of fetchData, in the order they were issued
    seeds,      \* calls of generateDemoData, in the order they were issued
    lastGot,    \* what the network produced for the fetchData call that settled last
                \* while the component was mounted
    lastManual  \* the latest fetchData call issued by a click while loading was true

vars == <<data, loading, error, life, interval, fetches, seeds, lastGot, lastManual>>

(* ---- React state setters ---------------------------------------------- *)

(* A state update dispatched to an unmounted component is dropped by       *)
(* React; the code adds no guard of its own.                               *)
setData_unguarded(v) == v
setData(v) == IF life = "unmounted" THEN data ELSE v

setLoading(v) == IF life = "unmounted" THEN loading ELSE v

setError(v) == IF life = "unmounted" THEN error ELSE v

(* err instanceof Error ? err.message : 'Failed to load data'              *)
ErrMessage(err) == IF err.isError THEN err.message ELSE FallbackMsg

(* The decoded body as stored by setData(result): JSON null is null.       *)
Payload(r, kind) == IF kind = "null" THEN NoData ELSE [req |-> r, kind |-> kind]

(* ---- render: which view is selected ----------------------------------- *)

View_welcomeBeforeError(d, l, e) ==
    IF l /\ d = NoData THEN "loading"
    ELSE IF d = NoData THEN "welcome"
    ELSE IF e # NoError THEN "error"
    ELSE IF d.kind = "wrongShape" THEN "crash"
    ELSE IF Fields(d.kind).total_requests = 0 THEN "welcome"
    ELSE "data"
View(d, l, e) ==
    IF l /\ d = NoData THEN "loading"
    ELSE IF e # NoError THEN "error"
    ELSE IF d = NoData THEN "welcome"
    ELSE IF d.kind = "wrongShape" THEN "crash"
    ELSE IF Fields(d.kind).total_requests = 0 THEN "welcome"
    ELSE "data"

(* A JavaScript number: NaN, or the quotient num / den.                    *)
NaN == [nan |-> TRUE, num |-> 0, den |-> 1]
Quot(n, d) == IF d = 0 /\ n = 0 THEN NaN ELSE [nan |-> FALSE, num |-> n, den |-> d]

(* const savingsRate = (data.cost_saved / (data.total_cost +               *)
(* data.cost_saved)) * 100                                                 *)
savingsRate(d) ==
    LET f == Fields(d.kind)
    IN  Quot(f.cost_saved * 100, f.total_cost + f.cost_saved)

(* x.toFixed(1): the text "NaN" for NaN, otherwise the value rounded to    *)
(* one decimal, given here in tenths ("70.0" is 700).                      *)
toFixed1(x) ==
    IF x.nan THEN [text |-> "NaN", tenths |-> 0]
    ELSE [text |-> "number", tenths |-> (2 * 10 * x.num + x.den) \div (2 * x.den)]

(* {savingsRate.toFixed(1)}% reduction, in the metrics view                *)
SavingsText(d) == toFixed1(savingsRate(d))

(* What each view puts on the screen: the metrics of the snapshot, the     *)
(* error message with the Retry button.                                    *)
ShowsData(v) == v = "data"
ShowsError(v) == v = "error"

(* Derived phase of the refresh state.                                     *)
Phase == IF loading THEN "Loading" ELSE IF error # NoError THEN "Error" ELSE "Ready"

(* ---- helpers ---------------------------------------------------------- *)

InFlight == {r \in DOMAIN fetches : fetches[r].pc \in {"fetch", "json"}}

PendingPosts == {s \in DOMAIN seeds : seeds[s].pc = "post"}

(* Room for one more summary request, keeping one for every demo-seed     *)
(* call whose POST is still outstanding.                                   *)
CanIssue == Len(fetches) + Cardinality(PendingPosts) < MaxFetches

(* clearInterval(interval): the armed timers after the effect cleanup (the *)
(* effect armed one timer and its cleanup clears that one).                *)
useEffectCleanup_keepsTimer == interval
useEffectCleanup == interval - 1

(* seeds after fetch r has settled: generateDemoData, awaiting it, returns *)
SeedsAfter(r) ==
    [s \in DOMAIN seeds |->
        IF seeds[s].pc = "refetch" /\ seeds[s].fetch = r
        THEN ReturnedSeed
        ELSE seeds[s]]

(* ---- fetchData -------------------------------------------------------- *)

(* setLoading(true); fetch(`${API_URL}/v1/summary`) up to the first await. *)
(* The call remembers who issued it; lastManual names it when it is issued *)
(* by a click while `loading` is already true.                             *)
fetchData_start_clearsError(origin) ==
    /\ loading' = setLoading(TRUE)
    /\ error' = setError(NoError)
    /\ fetches' = Append(fetches, [pc |-> "fetch", origin |-> origin])
    /\ lastManual' = IF origin = "manual" /\ loading THEN Len(fetches) + 1 ELSE lastManual
    /\ UNCHANGED data
fetchData_start(origin) ==
    /\ loading' = setLoading(TRUE)
    /\ fetches' = Append(fetches, [pc |-> "fetch", origin |-> origin])
    /\ lastManual' = IF origin = "manual" /\ loading THEN Len(fetches) + 1 ELSE lastManual
    /\ UNCHANGED <<data, error>>

(* the outcome of a settling call as the component sees it: a call that    *)
(* settles after unmount is seen by nobody                                 *)
Seen(outcome) == IF life = "unmounted" THEN lastGot ELSE outcome

(* catch (err) { setError(...) } finally { setLoading(false) }             *)
fetchData_catch_dropsData(r, err) ==
    /\ data' = setData(NoData)
    /\ error' = setError(ErrMessage(err))
    /\ loading' = setLoading(FALSE)
    /\ fetches' = [fetches EXCEPT ![r] = Returned]
    /\ lastGot' = Seen(err.cause)
    /\ seeds' = SeedsAfter(r)
    /\ UNCHANGED <<life, interval, lastManual>>
fetchData_catch_noFinally(r, err) ==
    /\ error' = setError(ErrMessage(err))
    /\ fetches' = [fetches EXCEPT ![r] = Returned]
    /\ lastGot' = Seen(err.cause)
    /\ seeds' = SeedsAfter(r)
    /\ UNCHANGED <<data, loading, life, interval, lastManual>>
fetchData_catch(r, err) ==
    /\ error' = setError(ErrMessage(err))
    /\ loading' = setLoading(FALSE)
    /\ fetches' = [fetches EXCEPT ![r] = Returned]
    /\ lastGot' = Seen(err.cause)
    /\ seeds' = SeedsAfter(r)
    /\ UNCHANGED <<data, life, interval, lastManual>>

(* setData(result); setError(null); finally { setLoading(false) }; the     *)
(* render that follows throws on a body without the numeric fields         *)
(* (data.total_cost.toFixed), which unmounts the component and runs the    *)
(* effect cleanup.                                                         *)
fetchData_success_keepsError(r, kind) ==
    /\ data' = setData(Payload(r, kind))
    /\ error' = error
    /\ loading' = setLoading(FALSE)
    /\ fetches' = [fetches EXCEPT ![r] = Returned]
    /\ lastGot' = Seen(kind)
    /\ seeds' = SeedsAfter(r)
    /\ UNCHANGED lastManual
    /\ IF life = "mounted" /\ View(data', loading', error') = "crash"
       THEN life' = "unmounted" /\ interval' = useEffectCleanup
       ELSE UNCHANGED <<life, interval>>
fetchData_success(r, kind) ==
    /\ data' = setData(Payload(r, kind))
    /\ error' = setError(NoError)
    /\ loading' = setLoading(FALSE)
    /\ fetches' = [fetches EXCEPT ![r] = Returned]
    /\ lastGot' = Seen(kind)
    /\ seeds' = SeedsAfter(r)
    /\ UNCHANGED lastManual
    /\ IF life = "mounted" /\ View(data', loading', error') = "crash"
       THEN life' = "unmounted" /\ interval' = useEffectCleanup
       ELSE UNCHANGED <<life, interval>>

(* ---- actions ---------------------------------------------------------- *)

Init ==
    /\ data = NoData
    /\ loading = TRUE
    /\ error = NoError
    /\ life = "constructed"
    /\ interval = 0
    /\ fetches = <<>>
    /\ seeds = <<>>
    /\ lastGot = "pending"
    /\ lastManual = 0

(* useEffect(() => { fetchData(); setInterval(fetchData, 10000); ... }, [])*)
Mount ==
    /\ life = "constructed"
    /\ life' = "mounted"
    /\ fetchData_start("mount")
    /\ interval' = interval + 1
    /\ UNCHANGED <<seeds, lastGot>>

(* the interval fires: fetchData()                                         *)
Tick ==
    /\ interval > 0
    /\ CanIssue
    /\ fetchData_start("timer")
    /\ UNCHANGED <<life, interval, seeds, lastGot>>

(* Refresh button of the data view: onClick={fetchData}                    *)
ClickRefresh_rearmsTimer ==
    /\ life = "mounted"
    /\ View(data, loading, error) = "data"
    /\ CanIssue
    /\ fetchData_start("manual")
    /\ interval' = interval + 1
    /\ UNCHANGED <<life, seeds, lastGot>>
ClickRefresh ==
    /\ life = "mounted"
    /\ View(data, loading, error) = "data"
    /\ CanIssue
    /\ fetchData_start("manual")
    /\ UNCHANGED <<life, interval, seeds, lastGot>>

(* Retry button of the error view: onClick={fetchData}                     *)
ClickRetry ==
    /\ life = "mounted"
    /\ View(data, loading, error) = "error"
    /\ CanIssue
    /\ fetchData_start("manual")
    /\ UNCHANGED <<life, interval, seeds, lastGot>>

(* Generate Demo Data button (welcome view and data view):                 *)
(* generateDemoData up to `await fetch(.../v1/demo-data, POST)`            *)
ClickGenerateDemoData ==
    /\ life = "mounted"
    /\ View(data, loading, error) \in {"welcome", "data"}
    /\ Len(seeds) < MaxSeeds
    /\ CanIssue
    /\ seeds' = Append(seeds, [pc |-> "post", post |-> "pending", fetch |-> 0])
    /\ UNCHANGED <<data, loading, error, life, interval, fetches, lastGot, lastManual>>

(* the POST resolves with a response (any status: the response is not      *)
(* inspected); generateDemoData goes on to `await fetchData()`             *)
PostResponds_onlyWhenOk(s, ok) ==
    /\ seeds[s].pc = "post"
    /\ IF ok
       THEN /\ fetchData_start("seed")
            /\ seeds' = [seeds EXCEPT ![s] = [pc |-> "refetch", post |-> "ok",
                                              fetch |-> Len(fetches) + 1]]
       ELSE /\ error' = setError(DemoSeedMsg)
            /\ seeds' = [seeds EXCEPT ![s] = [pc |-> "failed", post |-> "notOk",
                                              fetch |-> 0]]
            /\ UNCHANGED <<data, loading, fetches, lastManual>>
    /\ UNCHANGED <<life, interval, lastGot>>
PostResponds(s, ok) ==
    /\ seeds[s].pc = "post"
    /\ fetchData_start("seed")
    /\ seeds' = [seeds EXCEPT ![s] = [pc |-> "refetch",
                                      post |-> IF ok THEN "ok" ELSE "notOk",
                                      fetch |-> Len(fetches) + 1]]
    /\ UNCHANGED <<life, interval, lastGot>>

(* the POST rejects (transport failure): catch { setError(...) }           *)
PostRejects(s) ==
    /\ seeds[s].pc = "post"
    /\ error' = setError(DemoSeedMsg)
    /\ seeds' = [seeds EXCEPT ![s] = [pc |-> "failed", post |-> "rejected", fetch |-> 0]]
    /\ UNCHANGED <<data, loading, life, interval, fetches, lastGot, lastManual>>

(* fetch() resolves with a response: !response.ok throws                   *)
FetchResponds(r, ok) ==
    /\ fetches[r].pc = "fetch"
    /\ IF ok
       THEN /\ fetches' = [fetches EXCEPT ![r].pc = "json"]
            /\ UNCHANGED <<data, loading, error, life, interval, seeds, lastGot, lastManual>>
       ELSE fetchData_catch(r, [isError |-> TRUE, message |-> FetchNotOkMsg, cause |-> "notOk"])

(* fetch() rejects: transport failure                                      *)
FetchRejects(r) ==
    /\ fetches[r].pc = "fetch"
    /\ fetchData_catch(r, [isError |-> TRUE, message |-> TransportMsg, cause |-> "rejected"])

(* response.json() resolves with the decoded body                          *)
JsonResolves(r, kind) ==
    /\ fetches[r].pc = "json"
    /\ fetchData_success(r, kind)

(* response.json() rejects: the body is not JSON                           *)
JsonRejects(r) ==
    /\ fetches[r].pc = "json"
    /\ fetchData_catch(r, [isError |-> TRUE, message |-> ParseMsg, cause |-> "notJson"])

(* the component is unmounted: return () => clearInterval(interval)        *)
Unmount ==
    /\ life = "mounted"
    /\ life' = "unmounted"
    /\ interval' = useEffectCleanup
    /\ UNCHANGED <<data, loading, error, fetches, seeds, lastGot, lastManual>>

Next ==
    \/ Mount
    \/ Tick
    \/ ClickRefresh
    \/ ClickRetry
    \/ ClickGenerateDemoData
    \/ \E s \in DOMAIN seeds, ok \in BOOLEAN : PostResponds(s, ok)
    \/ \E s \in DOMAIN seeds : PostRejects(s)
    \/ \E r \in DOMAIN fetches, ok \in BOOLEAN : FetchResponds(r, ok)
    \/ \E r \in DOMAIN fetches : FetchRejects(r)
    \/ \E r \in DOMAIN fetches, kind \in JsonResults : JsonResolves(r, kind)
    \/ \E r \in DOMAIN fetches : JsonRejects(r)
    \/ Unmount

Spec == Init /\ [][Next]_vars

(* Every network call eventually completes: a pending GET /v1/summary gets *)
(* its response or rejects and its body is read, a pending POST            *)
(* /v1/demo-data resolves or rejects.                                      *)
FetchCompletes ==
    \/ \E r \in DOMAIN fetches, ok \in BOOLEAN : FetchResponds(r, ok)
    \/ \E r \in DOMAIN fetches : FetchRejects(r)
    \/ \E r \in DOMAIN fetches, kind \in JsonResults : JsonResolves(r, kind)
    \/ \E r \in DOMAIN fetches : JsonRejects(r)

PostSettles ==
    \/ \E s \in DOMAIN seeds, ok \in BOOLEAN : PostResponds(s, ok)
    \/ \E s \in DOMAIN seeds : PostRejects(s)

FairSpec == Spec /\ WF_vars(FetchCompletes) /\ WF_vars(PostSettles)

TypeOK ==
    /\ loading \in BOOLEAN
    /\ interval \in 0..1
    /\ life = "mounted" => interval = 1
    /\ life \in {"constructed", "mounted", "unmounted"}
    /\ error \in {NoError, FetchNotOkMsg, FallbackMsg, DemoSeedMsg, TransportMsg, ParseMsg}
    /\ data = NoData \/ (data.req \in DOMAIN fetches /\ data.kind \in JsonResults \ {"null"})
    /\ Len(fetches) <= MaxFetches
    /\ Len(seeds) <= MaxSeeds
    /\ \A r \in DOMAIN fetches :
          /\ fetches[r].pc \in {"fetch", "json", "done"}
          /\ fetches[r].origin \in Origins \cup {"none"}
    /\ lastGot \in {"pending"} \cup FailureCauses \cup JsonResults
    /\ lastManual \in 0..Len(fetches)
    /\ \A s \in DOMAIN seeds : seeds[s].pc \in {"post", "refetch", "done", "failed"}

(* ---- vocabulary of the properties ------------------------------------- *)

(* fetchData call r settles in this step                                   *)
Settles(r) == fetches[r].pc # "done" /\ fetches'[r].pc = "done"

(* ... through the catch block                                             *)
Fails(r) == Settles(r) /\ lastGot' \in FailureCauses

(* ... through setData(result)                                             *)
Succeeds(r) == Settles(r) /\ lastGot' \in JsonResults

(* a fetchData call with the given origin is issued in this step           *)
Starts(origin) ==
    /\ Len(fetches') = Len(fetches) + 1
    /\ fetches'[Len(fetches')].origin = origin

(* the POST of generateDemoData call s completes in this step              *)
PostCompletes(s) == seeds[s].pc = "post" /\ seeds'[s].pc # "post"

(* every message a failed summary fetch can leave in `error`               *)
FetchFailureMsgs == {FetchNotOkMsg, TransportMsg, ParseMsg, FallbackMsg}

(* ---- C1 --------------------------------------------------------------- *)

(* C1: in every reachable state at most one summary fetch is in flight.    *)
(* fetchData has no in-flight guard: a timer tick or a click while a       *)
(* request is outstanding issues a second one.                             *)
C1_AtMostOneInFlight == Cardinality(InFlight) <= 1

(* ---- C2 --------------------------------------------------------------- *)

(* C2: the response of a request is never applied to the snapshot once a   *)
(* later request has been issued by a manual refresh while it was in       *)
(* flight and the phase was Loading.  fetchData applies every response in  *)
(* completion order.                                                       *)
C2_NoStaleApply ==
    [][\A r \in DOMAIN fetches :
          (Succeeds(r) /\ lastGot' \in {"summary", "empty"}
              /\ data' = Payload(r, lastGot'))
          => lastManual <= r]_vars

(* ---- C3 --------------------------------------------------------------- *)

C4_TeardownCancelsTimer ==
    [][(life' = "unmounted" => interval' = 0) /\ (life = "unmounted" => ~Starts("timer"))]_vars

(* torn down while a fetch started by the timer is still in flight         *)
C4_Witness ==
    /\ life = "unmounted"
    /\ interval = 0
    /\ \E r \in DOMAIN fetches : fetches[r].origin = "timer"

(* ---- C5 --------------------------------------------------------------- *)

(* C5: while the component is mounted (the refresh state exists only       *)
(* between mount and teardown), a fetch that fails when a snapshot is      *)
(* present leaves the snapshot as it was, sets error, and leaves the phase *)
(* Error.                                                                  *)
C5_FailureKeepsSnapshot ==
    [][\A r \in DOMAIN fetches :
          (life = "mounted" /\ data # NoData /\ Fails(r))
          => (data' = data /\ error' # NoError /\ Phase' = "Error")]_vars

(* a failed fetch next to a snapshot of an earlier request                 *)
C5_Witness ==
    /\ life = "mounted"
    /\ data # NoData
    /\ error \in FetchFailureMsgs
    /\ ~loading
    /\ lastGot \in FailureCauses
    /\ \E r \in DOMAIN fetches : fetches[r].pc = "done" /\ r > data.req

(* ---- C6 --------------------------------------------------------------- *)

(* C6: while the component is mounted, a fetch that completes              *)
(* successfully replaces the snapshot by its payload, clears error (also   *)
(* one left by a failed demo seed) and makes the phase Ready.              *)
C6_SuccessReplacesSnapshot ==
    [][\A r \in DOMAIN fetches :
          (life = "mounted" /\ Succeeds(r))
          => (data' = Payload(r, lastGot') /\ error' = NoError /\ Phase' = "Ready")]_vars

(* a demo seed failed while mounted (error was set) and a later success    *)
(* has cleared it                                                          *)
C6_Witness ==
    /\ life = "mounted"
    /\ error = NoError
    /\ ~loading
    /\ data # NoData
    /\ lastGot = data.kind
    /\ \E s \in DOMAIN seeds : seeds[s].pc = "failed"

(* ---- C7 --------------------------------------------------------------- *)

(* C7: phase Ready (not loading, no error) implies a snapshot is present.  *)
(* A 200 response whose body is the JSON value null is stored by           *)
(* setData(result) and leaves Ready with data = null.                      *)
C7_ReadyImpliesSnapshot == Phase = "Ready" => data # NoData

(* ---- C8 --------------------------------------------------------------- *)

(* C8: a response that is non-2xx, or whose body does not decode into a    *)
(* SummaryData (not JSON, or JSON of another shape), is a fetch failure:   *)
(* it is not stored as the snapshot and it sets error.                     *)
C8_BadResponseIsFailure ==
    [][\A r \in DOMAIN fetches :
          (life = "mounted" /\ Settles(r)
              /\ lastGot' \in {"notOk", "notJson", "wrongShape", "null"})
          => (data' = data /\ error' # NoError)]_vars

(* ---- C9 --------------------------------------------------------------- *)

(* C9 as stated: whenever the POST of a demo seed completes, by success or *)
(* by failure, a summary fetch is started in that step.                    *)
C9_SeedAlwaysRefetches ==
    [][\A s \in DOMAIN seeds : PostCompletes(s) => Starts("seed")]_vars

(* C9 amended: when the POST completes with a response (2xx or not) a      *)
(* summary fetch is started; when the POST rejects (transport failure) no  *)
(* fetch is started; and every fetch started by generateDemoData belongs   *)
(* to a seed call whose POST has already completed with a response.        *)
C9_SeedRefetchesOnResponse ==
    [][/\ \A s \in DOMAIN seeds :
             PostCompletes(s) =>
                IF seeds'[s].post \in {"ok", "notOk"}
                THEN Starts("seed") /\ seeds'[s].fetch = Len(fetches')
                ELSE seeds'[s].post = "rejected" /\ fetches' = fetches
       /\ \A r \in DOMAIN fetches' :
             fetches'[r].origin = "seed" =>
                \E s \in DOMAIN seeds' :
                   seeds'[s].fetch = r /\ seeds'[s].post \in {"ok", "notOk"}]_vars

(* both outcomes have happened: a seed whose POST got a non-2xx response   *)
(* and started its fetch, and a seed whose POST was rejected               *)
C9_Witness ==
    /\ \E s \in DOMAIN seeds :
          seeds[s].post = "notOk" /\ fetches[seeds[s].fetch].origin = "seed"
    /\ \E s \in DOMAIN seeds : seeds[s].post = "rejected" /\ seeds[s].fetch = 0

(* ---- C10 -------------------------------------------------------------- *)

(* C10: every failure of the demo-seed POST (rejected, or answered with a  *)
(* non-2xx status) sets error to the demo-seed message, which no summary   *)
(* fetch failure sets, and puts the phase in Error.  The response of the   *)
(* POST is never inspected, so a non-2xx answer sets nothing.              *)
C10_SeedFailureSurfaced ==
    [][\A s \in DOMAIN seeds :
          (life = "mounted" /\ PostCompletes(s) /\ seeds'[s].post \in {"notOk", "rejected"})
          => (error' = DemoSeedMsg /\ DemoSeedMsg \notin FetchFailureMsgs /\ Phase' = "Error")]_vars

(* ---- C11 -------------------------------------------------------------- *)

(* the view rendered from the current state                                *)
CurrentView == View(data, loading, error)

(* C11 (its safety half): a fetch issued by the polling timer is started   *)
(* only after the previous fetch has reached Ready or Error, that is, with *)
(* no fetch in flight and the phase terminal.  setInterval fires every     *)
(* 10 s whatever the state of the previous fetch.                          *)
C11_TimerWaitsForTerminal ==
    [][Starts("timer") => (InFlight = {} /\ Phase \in {"Ready", "Error"})]_vars

(* ---- C12 -------------------------------------------------------------- *)

(* C12: once a snapshot is present it is never empty again and the view is *)
(* never the loading-only view again.  A later 200 response with the body  *)
(* null is stored by setData(result).                                      *)
C12_SnapshotNeverEmptyAgain ==
    [][data # NoData => (data' # NoData /\ View(data', loading', error') # "loading")]_vars

(* ---- C13 -------------------------------------------------------------- *)

(* C13: whenever error is set and a snapshot exists, the selected view     *)
(* shows the snapshot data together with the error.  The render returns    *)
(* the error view as soon as error is set, whatever data holds.            *)
C13_StaleDataWithError ==
    (life = "mounted" /\ error # NoError /\ data # NoData)
    => (ShowsData(CurrentView) /\ ShowsError(CurrentView))

(* ---- C14 -------------------------------------------------------------- *)

(* C14: when the first fetch to complete after mount fails, the phase is   *)
(* Error, the snapshot is empty and the selected view is the error view    *)
(* with the Retry button (not the data view, not the welcome view); the    *)
(* Retry button starts a new fetch.                                        *)
C14_FirstFailureShowsRetry ==
    [][/\ \A r \in DOMAIN fetches :
             (life = "mounted" /\ lastGot = "pending" /\ Fails(r))
             => /\ Phase' = "Error"
                /\ data' = NoData
                /\ ShowsError(View(data', loading', error'))
                /\ ~ShowsData(View(data', loading', error'))
       /\ ClickRetry => (ShowsError(CurrentView) /\ Starts("manual"))]_vars

(* the mount fetch was the only one issued and it has failed               *)
C14_Witness ==
    /\ life = "mounted"
    /\ Len(fetches) = 1
    /\ lastGot \in FailureCauses
    /\ data = NoData
    /\ Phase = "Error"
    /\ CurrentView = "error"

(* ---- C15 -------------------------------------------------------------- *)

(* C15: for a snapshot with total_cost = 0 and cost_saved = 0 shown in the *)
(* metrics view, the savings rate is displayed as 0.0 %.  The render       *)
(* computes 0 / 0 = NaN without raising and prints NaN.toFixed(1), the     *)
(* text "NaN".                                                             *)
C15_ZeroCostShowsZero ==
    (life = "mounted" /\ CurrentView = "data"
        /\ Fields(data.kind).total_cost = 0 /\ Fields(data.kind).cost_saved = 0)
    => SavingsText(data) = [text |-> "number", tenths |-> 0]

(* ---- C16 -------------------------------------------------------------- *)

(* C16: issuing a fetch (from mount, timer, click or generateDemoData)     *)
(* leaves data and error as they were and, while mounted, sets loading;    *)
(* the arrival of the response headers, before the body is decoded,        *)
(* changes none of the three.                                              *)
C16_StartChangesOnlyLoading ==
    [][/\ \A o \in Origins :
             Starts(o) => /\ data' = data
                          /\ error' = error
                          /\ life' = "mounted" => loading'
       /\ \A r \in DOMAIN fetches :
             (fetches[r].pc = "fetch" /\ fetches'[r].pc = "json")
             => UNCHANGED <<data, loading, error>>]_vars

(* a refresh in flight next to a retained snapshot and a retained error    *)
C16_Witness ==
    /\ life = "mounted"
    /\ loading
    /\ InFlight # {}
    /\ data # NoData
    /\ error # NoError

(* ---- C17 -------------------------------------------------------------- *)

(* C17: between mount and teardown exactly one polling timer is armed, and *)
(* neither a manual refresh nor a demo-seed request (its click or its      *)
(* re-fetch) changes the armed timers.                                     *)
C17_OneTimerWhileMounted ==
    [][/\ life' = "mounted" => interval' = 1
       /\ (Starts("manual") \/ Starts("seed") \/ Len(seeds') > Len(seeds))
          => interval' = interval]_vars

(* mounted, one timer armed, after a manual refresh and a demo-seed call   *)
C17_Witness ==
    /\ life = "mounted"
    /\ interval = 1
    /\ \E r \in DOMAIN fetches : fetches[r].origin = "manual"
    /\ Len(seeds) > 0

(* ---- C18 -------------------------------------------------------------- *)

(* C18: while mounted, a summary fetch in flight implies loading = true.   *)
(* With two fetches in flight the first to settle runs setLoading(false)   *)
(* while the other is still outstanding.                                   *)
C18_InFlightImpliesLoading ==
    (life = "mounted" /\ InFlight # {}) => loading

(* ---- C19 -------------------------------------------------------------- *)

(* C19: while mounted, loading is false whenever no summary fetch is in    *)
(* flight and at least one has settled; and, every network call            *)
(* eventually completing, loading = true is always followed by             *)
(* loading = false (or by teardown, after which the state is frozen).      *)
C19_LoadingNeverSticks ==
    /\ []((life = "mounted" /\ InFlight = {} /\ lastGot # "pending") => ~loading)
    /\ ((life = "mounted" /\ loading) ~> (~loading \/ life = "unmounted"))

(* nothing in flight and not loading, after a generateDemoData call whose  *)
(* re-fetch has settled                                                    *)
C19_Witness ==
    /\ life = "mounted"
    /\ InFlight = {}
    /\ lastGot # "pending"
    /\ ~loading
    /\ \E s \in DOMAIN seeds : seeds[s] = ReturnedSeed

====
